---- MODULE Spec2Model ----
(***************************************************************************)
(* Dental Clinic Agent API: login, application tokens, session creation    *)
(* and LiveKit agent dispatch (routers/api.py, jwt_utils.py,               *)
(* utils/helpers.py, database_service.py).                                 *)
(*                                                                         *)
(* Time is the wall clock in whole seconds (the resolution of a JWT        *)
(* NumericDate).  Tokens are records: a signature is modelled by the key   *)
(* that produced it, which only a holder of the same key can check.        *)
(***************************************************************************)
EXTENDS Integers, Sequences, FiniteSets, TLC

\* ------------------------------------------------------------------ bounds
MaxTicks == 2          \* clock steps taken by the environment
MaxRequests == 1       \* create_session requests in flight
MaxUuid == 2           \* distinct values a truncated uuid4 can take
MaxSessions == 2       \* session records created directly
MaxRows == 2           \* rows the users, bookings and booking_history tables can grow to

\* -------------------------------------------------------------------- state
VARIABLES
    now,         \* wall clock, seconds
    ticks,       \* clock steps taken so far
    lastLogin,   \* the latest login call: request, db outcome, time, response
    prevLogin,   \* the login call before it
    lastVerify,  \* the latest verify_token call: token, time, outcome
    lastMint,    \* the latest generate_livekit_token call: arguments, time, token
    env,         \* the process environment (os.getenv)
    sessions,    \* the sessions table, in insertion order
    rooms,       \* names of the rooms that exist at the provider
    dispatches,  \* agent dispatches the provider holds
    req,         \* per create_session request: position, locals, call log, reply
    pool,        \* connections of the MySQL pool that are checked out
    users,       \* the users table, in insertion order
    bookings,    \* the bookings table, in insertion order
    booking_history,  \* the booking_history table, in insertion order
    session_analytics,  \* the session_analytics table: one row per day
    dbcall,      \* per persistence caller: position, arguments, locals, outcome
    lastDb,      \* the latest completed persistence call
    dispatch_reply  \* what create_dispatch of the installed SDK answers

authVars == <<lastLogin, prevLogin, lastVerify, lastMint>>
flowVars == <<env, sessions, rooms, dispatches, req, dispatch_reply>>
dbVars == <<pool, users, bookings, booking_history, session_analytics, dbcall, lastDb>>
vars == <<now, ticks, lastLogin, prevLogin, lastVerify, lastMint, env, sessions, rooms, dispatches, req, pool, users, bookings, booking_history, session_analytics, dbcall, lastDb, dispatch_reply>>

\* ------------------------------------------------------- program constants
ALGORITHM == "HS256"
EXPIRE_MINUTES == 24 * 60
SettleSeconds == 2
ReadySeconds == 8

\* Python's None, and the values a missing dict key / unset variable gives.
None == [kind |-> "None"]
Unset == ""

\* ------------------------------------------------------------ configuration
required_vars ==
    <<"LIVEKIT_URL", "LIVEKIT_API_KEY", "LIVEKIT_API_SECRET",
      "DB_HOST", "DB_USER", "DB_NAME">>

RequiredSet == {required_vars[i] : i \in 1..Len(required_vars)}

\* Every variable the service reads from its environment.
EnvVars == RequiredSet \cup {"JWT_SECRET_KEY"}

FullEnv ==
    [v \in EnvVars |->
        CASE v = "JWT_SECRET_KEY"     -> "jwt-secret-key-0123456789abcdef0123456789"
          [] v = "LIVEKIT_URL"        -> "wss://livekit.example.com"
          [] v = "LIVEKIT_API_KEY"    -> "lk-api-key"
          [] v = "LIVEKIT_API_SECRET" -> "lk-api-secret"
          [] v = "DB_HOST"            -> "db.internal"
          [] v = "DB_USER"            -> "clinic"
          [] v = "DB_NAME"            -> "dental_clinic_agent"]

\* A deployment whose signing secret is shorter than jwt_utils asks for.
WeakSecretEnv == [FullEnv EXCEPT !["JWT_SECRET_KEY"] = "s3cret"]

\* A deployment that reuses one secret for application and provider tokens.
SharedKeyEnv ==
    [FullEnv EXCEPT !["LIVEKIT_API_SECRET"] = FullEnv["JWT_SECRET_KEY"]]

\* The process environment: complete, or with one required variable unset.
EnvChoices ==
    {FullEnv} \cup {[FullEnv EXCEPT ![v] = Unset] : v \in RequiredSet}

\* Deployments that differ in the signing secret: none, a weak one, or the
\* provider's secret used twice.
SecretChoices ==
    {[FullEnv EXCEPT !["JWT_SECRET_KEY"] = Unset], WeakSecretEnv, SharedKeyEnv}

\* os.getenv(name)
getenv(e, name) == e[name]

\* SECRET_KEY = os.getenv("JWT_SECRET_KEY"), read once when jwt_utils loads.
SECRET_KEY == getenv(env, "JWT_SECRET_KEY")

\* The length below which jwt_utils warns about the secret.
MinSecretLength == 32

\* jwt_utils loaded: it raises EnvironmentError when the secret is not set,
\* and only logs a warning when it is short.  routers/api.py imports it, so
\* without it the application does not come up.
jwt_utils_loaded == SECRET_KEY # Unset

secret_warning == SECRET_KEY # Unset /\ Len(SECRET_KEY) < MinSecretLength

\* The names validate_environment reports missing, in order.
MissingVars(e) ==
    SelectSeq(required_vars, LAMBDA v : getenv(e, v) = Unset)

\* A formatted message is kept as the sequence of the pieces its f-string
\* joins, so that what a message carries can be read back from it.
Carries(message, piece) == \E i \in 1..Len(message) : message[i] = piece

\* A bug: only the provider's variables are looked at.
validate_environment_provider_only(e) ==
    LET missing == SelectSeq(MissingVars(e),
                       LAMBDA v : v \in {"LIVEKIT_URL", "LIVEKIT_API_KEY", "LIVEKIT_API_SECRET"})
    IN  IF missing # <<>>
        THEN <<"Missing environment variables: ">> \o missing
        ELSE <<>>

\* validate_environment(): the EnvironmentError message it raises, or the
\* empty message when it returns normally.
validate_environment(e) ==
    IF MissingVars(e) # <<>>
    THEN <<"Missing environment variables: ">> \o MissingVars(e)
    ELSE <<>>

\* ------------------------------------------------------------ credentials
\* hashlib.sha256(password.encode()).hexdigest()
sha256(p) == "sha256:" \o p

\* Rows of the user_auth table (id, email, password hash).
user_auth ==
    { [id |-> 7, email |-> "doc@example.com", password |-> sha256("clinicpass")],
      [id |-> 8, email |-> "amy@example.com", password |-> sha256("hunter22")] }

Emails == {"doc@example.com", "amy@example.com", "eve@example.com"}
Passwords == {"clinicpass", "hunter22"}

\* SELECT id, email FROM user_auth WHERE email = %s AND password = %s
SelectUser(email, hashed_password) ==
    {[id |-> u.id, email |-> u.email] :
        u \in {a \in user_auth : a.email = email /\ a.password = hashed_password}}

\* cursor.fetchone(): a row, or None
FetchOne(rows) == IF rows = {} THEN None ELSE CHOOSE u \in rows : TRUE

\* DatabaseService.login with the persistence layer working.
db_login(email, password) == FetchOne(SelectUser(email, sha256(password)))

\* ----------------------------------------------------- application tokens
\* jwt.encode(payload, key, algorithm): a signed token.
jwt_encode(payload, key, alg) ==
    [kind |-> "jws", alg |-> alg, payload |-> payload, key |-> key]

\* A bearer string that is not a JWT at all.
Garbage == [kind |-> "garbage"]

\* A bug: the lifetime in minutes is added to a clock that counts seconds.
create_access_token_minutes(data, at) ==
    LET expire == at + EXPIRE_MINUTES
        to_encode == [email |-> data.email, id |-> data.id, exp |-> expire]
    IN  jwt_encode(to_encode, SECRET_KEY, ALGORITHM)

\* create_access_token(data) called at time `at`.
create_access_token(data, at) ==
    LET expire == at + EXPIRE_MINUTES * 60
        to_encode == [email |-> data.email, id |-> data.id, exp |-> expire]
    IN  jwt_encode(to_encode, SECRET_KEY, ALGORITHM)

\* Application tokens and provider join tokens are both JWTs.
IsJwt(token) == token.kind \in {"jws", "media"}

\* jwt.decode(token, key, algorithms): the payload, or the exception raised.
jwt_decode(token, key, algs, at) ==
    IF ~IsJwt(token) THEN [exc |-> "DecodeError"]
    ELSE IF token.alg \notin algs THEN [exc |-> "InvalidAlgorithmError"]
    ELSE IF token.key # key THEN [exc |-> "InvalidSignatureError"]
    ELSE IF token.payload.exp <= at THEN [exc |-> "ExpiredSignatureError"]
    ELSE [exc |-> "none", payload |-> token.payload]

\* The exception classes PyJWT derives from InvalidTokenError.
InvalidTokenError ==
    {"DecodeError", "InvalidAlgorithmError", "InvalidSignatureError",
     "ExpiredSignatureError"}

\* A bug: only the expiry exception is handled.
verify_token_expired_only(token, at) ==
    LET d == jwt_decode(token, SECRET_KEY, {ALGORITHM}, at)
    IN  IF d.exc = "none" THEN [raised |-> FALSE, value |-> d.payload]
        ELSE IF d.exc = "ExpiredSignatureError" THEN [raised |-> FALSE, value |-> None]
        ELSE [raised |-> TRUE, value |-> None]

\* verify_token(token) called at time `at`: what it returns, or that it raised.
verify_token(token, at) ==
    LET d == jwt_decode(token, SECRET_KEY, {ALGORITHM}, at)
    IN  IF d.exc = "none" THEN [raised |-> FALSE, value |-> d.payload]
        ELSE IF d.exc = "ExpiredSignatureError" THEN [raised |-> FALSE, value |-> None]
        ELSE IF d.exc \in InvalidTokenError THEN [raised |-> FALSE, value |-> None]
        ELSE [raised |-> TRUE, value |-> None]

\* ------------------------------------------------------------------- login
\* LoginResponse(success, message, token, user)
LoginResponse(success, message, token, user) ==
    [status |-> 200, success |-> success, message |-> message, token |-> token,
     user |-> user]

\* A bug: an unknown email is reported differently from a wrong password.
login_leaks_unknown_email(request, db_ok, at) ==
    IF request.email = Unset \/ request.password = Unset
    THEN LoginResponse(FALSE, "Email and password are required", None, None)
    ELSE IF ~db_ok
    THEN LoginResponse(FALSE, "Authentication error. Please try again.", None, None)
    ELSE LET user == db_login(request.email, request.password)
         IN  IF user # None
             THEN LoginResponse(TRUE, "Login successful",
                      create_access_token([email |-> user.email, id |-> user.id], at),
                      [id |-> user.id, email |-> user.email])
             ELSE IF \E a \in user_auth : a.email = request.email
             THEN LoginResponse(FALSE, "Invalid email or password", None, None)
             ELSE LoginResponse(FALSE, "Unknown user", None, None)

\* The login handler, called at time `at`; db_ok says whether get_db() and
\* db.login() completed without raising.
login(request, db_ok, at) ==
    IF request.email = Unset \/ request.password = Unset
    THEN LoginResponse(FALSE, "Email and password are required", None, None)
    ELSE IF ~db_ok
    THEN LoginResponse(FALSE, "Authentication error. Please try again.", None, None)
    ELSE LET user == db_login(request.email, request.password)
         IN  IF user # None
             THEN LoginResponse(TRUE, "Login successful",
                      create_access_token([email |-> user.email, id |-> user.id], at),
                      [id |-> user.id, email |-> user.email])
             ELSE LoginResponse(FALSE, "Invalid email or password", None, None)

\* ------------------------------------------------------- session records
NULL == -1   \* SQL NULL in a sessions column

\* INSERT INTO sessions (session_id, room_name, start_time, status)
\* with a fresh session_id = "sess_" + uuid4().hex[:12].
db_create_session(table, room_name, at) ==
    Append(table,
           [session_id |-> "sess_" \o ToString(Len(table) + 1),
            room_name |-> room_name, start_time |-> at, status |-> "active",
            end_time |-> NULL, duration_seconds |-> NULL])

\* UPDATE sessions SET end_time, status = 'completed', duration_seconds
\* WHERE session_id = %s
db_end_session(table, session_id, duration_seconds, at) ==
    [i \in DOMAIN table |->
        IF table[i].session_id = session_id
        THEN [table[i] EXCEPT !.end_time = at, !.status = "completed",
                              !.duration_seconds = duration_seconds]
        ELSE table[i]]

\* ------------------------------------------------------------ random names
\* uuid.uuid4().hex[:8] for the u-th value the generator can give.
Hex(u) == "h" \o ToString(u)

\* A bug: the room is named after the clinic, not after the random value.
generate_room_name_by_clinic(clinic_id, u) == "clinic_session_" \o clinic_id

\* generate_room_name(clinic_id) when uuid4 gives its u-th value.
generate_room_name(clinic_id, u) == "clinic_session_" \o Hex(u)

generate_participant_identity(u) == "participant_" \o Hex(u)

DefaultAgentName == "toothfairy-dental-agent"

\* ------------------------------------------------------- media-join tokens
\* VideoGrants(...): every flag the constructor is not given stays off.
VideoGrants(room_join, room, can_publish, can_subscribe, can_publish_data) ==
    [room |-> room, room_join |-> room_join, can_publish |-> can_publish,
     can_subscribe |-> can_subscribe, can_publish_data |-> can_publish_data,
     room_create |-> FALSE, room_list |-> FALSE, room_admin |-> FALSE,
     room_record |-> FALSE]

\* The lifetime an AccessToken has when the caller sets none (with_ttl is
\* never called): the SDK's own default of six hours.
DEFAULT_TTL == 6 * 60 * 60

\* AccessToken(key, secret).with_identity(i).with_name(n).with_grants(g).to_jwt()
\* at time `at`: an HS256 JWT signed with the API secret.
AccessTokenJwt(api_key, api_secret, identity, name, grants, at) ==
    [kind |-> "media", alg |-> "HS256", identity |-> identity, name |-> name,
     grants |-> grants, key |-> api_secret,
     payload |-> [iss |-> api_key, sub |-> identity, name |-> name,
                  nbf |-> at, exp |-> at + DEFAULT_TTL, video |-> grants]]

\* A bug: the display name is used as the identity and the room is left open.
join_token_unscoped(room_name, participant_identity, participant_name, livekit_api_key, livekit_api_secret, at) ==
    AccessTokenJwt(livekit_api_key, livekit_api_secret,
                   participant_name, participant_name,
                   VideoGrants(TRUE, Unset, TRUE, TRUE, TRUE), at)

\* STEP 5 of create_livekit_agent_dispatch: the participant's access token.
join_token(room_name, participant_identity, participant_name, livekit_api_key, livekit_api_secret, at) ==
    AccessTokenJwt(livekit_api_key, livekit_api_secret,
                   participant_identity, participant_name,
                   VideoGrants(TRUE, room_name, TRUE, TRUE, TRUE), at)

\* generate_livekit_token(...), called at time `at`: no display name is set,
\* and session_id, livekit_url and token_ttl are not used.
generate_livekit_token(room_name, participant_identity, session_id, livekit_url, livekit_api_key, livekit_api_secret, token_ttl, at) ==
    AccessTokenJwt(livekit_api_key, livekit_api_secret,
                   participant_identity, Unset,
                   VideoGrants(TRUE, room_name, TRUE, TRUE, TRUE), at)

\* The dictionary create_livekit_agent_dispatch returns.
DispatchResult(dispatch_id, room_name, participant_identity, participant_name, access_token, livekit_url, agent_name, metadata) ==
    [kind |-> "result", dispatch_id |-> dispatch_id, room |-> room_name,
     identity |-> participant_identity, name |-> participant_name,
     access_token |-> access_token, livekit_url |-> livekit_url,
     agent_name |-> agent_name, metadata |-> metadata]

\* raise HTTPException(status_code, detail)
HTTPException(status_code, detail) ==
    [kind |-> "raised", status_code |-> status_code, detail |-> detail]

\* str(e) of an HTTPException
StrHTTPException(e) == <<ToString(e.status_code) \o ": ">> \o e.detail

\* dict.get(key, default)
dict_get(d, key, default) == IF key \in DOMAIN d THEN d[key] ELSE default

\* --------------------------------------------------- create_session replies
\* A bug: the provider credentials are sent along with the token.
response_data_with_keys(user_id, user_email, session_id, e, room_name, participant_identity, dispatch_result) ==
    [user_id |-> user_id, user_email |-> user_email, session_id |-> session_id,
     livekit_url |-> getenv(e, "LIVEKIT_URL"), room_name |-> room_name,
     participant_identity |-> participant_identity,
     participant_name |-> user_email, agent_name |-> DefaultAgentName,
     dispatch_id |-> dispatch_result.dispatch_id,
     access_token |-> dispatch_result.access_token,
     livekit_api_key |-> getenv(e, "LIVEKIT_API_KEY"),
     livekit_api_secret |-> getenv(e, "LIVEKIT_API_SECRET")]

\* response_data of create_session
response_data(user_id, user_email, session_id, e, room_name, participant_identity, dispatch_result) ==
    [user_id |-> user_id, user_email |-> user_email, session_id |-> session_id,
     livekit_url |-> getenv(e, "LIVEKIT_URL"), room_name |-> room_name,
     participant_identity |-> participant_identity,
     participant_name |-> user_email, agent_name |-> DefaultAgentName,
     dispatch_id |-> dispatch_result.dispatch_id,
     access_token |-> dispatch_result.access_token]

\* SessionCreateResponse(success, message, data, error), sent with status 200
SessionCreateResponse(success, message, data, error) ==
    [status |-> 200, success |-> success, message |-> message, data |-> data,
     error |-> error]

\* What the client gets when the handler or its dependency raises HTTPException.
ErrorResponse(e) == [status |-> e.status_code, success |-> FALSE, detail |-> e.detail]

\* A bug: the payload is handed on without checking that there is one.
verify_jwt_token_unchecked(token, at) ==
    IF token.kind = "jws"
    THEN [kind |-> "payload", payload |-> token.payload]
    ELSE HTTPException(401, <<"Invalid or expired token">>)

\* verify_jwt_token(credentials): the payload, or the 401 it raises.
verify_jwt_token(token, at) ==
    LET payload == verify_token(token, at).value
    IN  IF payload = None
        THEN HTTPException(401, <<"Invalid or expired token">>)
        ELSE [kind |-> "payload", payload |-> payload]

\* ------------------------------------------------- dispatch control flow
\* One entry of a request's call log: an operation it invoked on the
\* persistence layer or the provider, a wait it sat out, or the token mint.
Call(op, room, ok, error) == [op |-> op, room |-> room, ok |-> ok, error |-> error]

\* A bug: a failed room listing is re-raised like a failed dispatch.
after_list_rooms_fatal(ok, existing_room) ==
    IF ~ok THEN "aclose_failed"
    ELSE IF existing_room THEN "delete_room" ELSE "create_dispatch"

\* A bug: a failed insert is logged and the handler carries on.
after_db_create_session_swallow(ok) == "list_rooms"

\* create_session after db.create_session returned (or raised): an exception
\* leaves the try block for the handler's except clause.
after_db_create_session(ok) == IF ok THEN "list_rooms" ELSE "done"

\* STEP 1: after list_rooms returned (or raised).
after_list_rooms(ok, existing_room) ==
    IF ok /\ existing_room THEN "delete_room" ELSE "create_dispatch"

\* A bug: the flow does not wait for the provider after deleting the room.
after_delete_room_nosettle(ok) == "create_dispatch"

\* STEP 1: after delete_room returned (or raised).
after_delete_room(ok) == IF ok THEN "sleep_settle" ELSE "create_dispatch"

\* A bug: a failed dispatch is swallowed like the advisory steps are.
after_create_dispatch_swallow(ok) == "sleep_ready"

\* A bug: the readiness wait and presence check are skipped.
after_create_dispatch_nowait(ok) == IF ok THEN "aclose" ELSE "aclose_failed"

\* STEP 2: after create_dispatch returned (or raised and was re-raised).
after_create_dispatch(ok) == IF ok THEN "sleep_ready" ELSE "aclose_failed"

\* A bug: the presence check decides: no agent seen, or a failed check, is
\* raised like a failed dispatch.
after_list_participants_strict(seen) ==
    IF seen = "agent" THEN "aclose" ELSE "aclose_failed"

\* STEP 4: after list_participants returned (or raised): the result is only
\* logged.
after_list_participants(seen) == "aclose"

ProviderErrors ==
    {"twirp error unavailable: connection refused",
     "twirp error permission_denied: invalid API key"}

NoCall == [kind |-> "none"]

EXPIRE_SECONDS == EXPIRE_MINUTES * 60
TickDeltas == {1, EXPIRE_SECONDS - 1}

Requests == 1..MaxRequests

IdleRequest ==
    [pc |-> "idle", bearer |-> None, started_at |-> NULL, payload |-> None,
     user_email |-> Unset, user_id |-> None, unique_id |-> Unset,
     room_name |-> Unset, participant_identity |-> Unset, session_id |-> Unset,
     dispatch_id |-> Unset, metadata |-> None, calls |-> <<>>, wake |-> NULL,
     minted |-> None, outcome |-> NoCall, resp |-> NoCall, conns |-> 0]

\* ------------------------------------------------ the dispatch response
\* The object create_dispatch returns, by the attributes the helper looks at
\* and the `id` the SDK's AgentDispatch message carries; Absent: the object
\* has no such attribute; "": the attribute is there and empty.
Absent == "<absent>"

DispatchReply(agent_job, agent_dispatch_id, id) ==
    [agent_job |-> agent_job, agent_dispatch_id |-> agent_dispatch_id, id |-> id]

\* livekit.protocol AgentDispatch: id, agent_name, room, metadata, state.
AgentDispatch == DispatchReply(Absent, Absent, "AD_1")

DispatchReplies ==
    { AgentDispatch,
      DispatchReply("AJ_1", Absent, Absent),
      DispatchReply("", "AD_1", Absent),
      DispatchReply(Absent, "AD_1", Absent),
      DispatchReply(Absent, "", Absent) }

hasattr(dispatch, attribute) == dispatch[attribute] # Absent

\* if dispatch and hasattr(dispatch, 'agent_job') and dispatch.agent_job:
\*     dispatch_id = dispatch.agent_job.id
\* elif dispatch and hasattr(dispatch, 'agent_dispatch_id'):
\*     dispatch_id = dispatch.agent_dispatch_id
dispatch_id_from(dispatch, dispatch_id) ==
    IF hasattr(dispatch, "agent_job") /\ dispatch.agent_job # ""
    THEN dispatch.agent_job
    ELSE IF hasattr(dispatch, "agent_dispatch_id")
    THEN dispatch.agent_dispatch_id
    ELSE dispatch_id

\* ------------------------------------------------- the connection pool
\* pooling.MySQLConnectionPool(pool_size=5, ...)
pool_size == 5

\* Where a persistence call can fail: nowhere, in get_connection, in a
\* cursor.execute, in conn.commit.
FailPoints == {"none", "pool", "execute", "commit"}

\* What closing a pooled connection a second time does; the connector is not
\* part of the repository, so both outcomes stay open.
SecondClose == {"ignored", "raises"}

\* One call's use of the pool: connections acquired, conn.close() calls made,
\* whether conn.rollback() ran, whether the failure was logged, what the call
\* raised to its caller (Unset when it returned).
ConnUse(acquired, closes, rolled_back, logged, raised) ==
    [acquired |-> acquired, closes |-> closes, rolled_back |-> rolled_back,
     logged |-> logged, raised |-> raised]

\* Connections a call leaves checked out.
StillOut(use) == IF use.closes >= use.acquired THEN 0 ELSE use.acquired - use.closes

\* A bug: create_session keeps its connection after the INSERT.
create_session_conn_held(fail) ==
    IF fail = "pool"
    THEN ConnUse(0, 0, FALSE, TRUE, "UnboundLocalError")
    ELSE ConnUse(1, 0, FALSE, fail # "none", IF fail = "none" THEN Unset ELSE "Error")

\* DatabaseService.create_session: try / except Error: log, raise / finally:
\* cursor.close(); conn.close().  When get_connection raised, `cursor` is
\* unbound in the finally block.
create_session_conn(fail) ==
    IF fail = "pool"
    THEN ConnUse(0, 0, FALSE, TRUE, "UnboundLocalError")
    ELSE ConnUse(1, 1, FALSE, fail # "none", IF fail = "none" THEN Unset ELSE "Error")

\* DatabaseService.end_session: try / except Error: log / finally:
\* cursor.close(); conn.close().
end_session_conn(fail) ==
    IF fail = "pool"
    THEN ConnUse(0, 0, FALSE, TRUE, "UnboundLocalError")
    ELSE ConnUse(1, 1, FALSE, fail # "none", Unset)

\* DatabaseService.login: no try block; cursor.close() and conn.close() are
\* reached only when nothing raised.  The SELECT is not committed.
login_conn(fail) ==
    IF fail = "pool" THEN ConnUse(0, 0, FALSE, TRUE, "Error")
    ELSE IF fail = "none" THEN ConnUse(1, 1, FALSE, FALSE, Unset)
    ELSE ConnUse(1, 0, FALSE, FALSE, "Error")

\* DatabaseService.log_booking_to_history: conn = None; cursor = None; try /
\* except Error: log, rollback if conn / finally: guarded closes, then
\* cursor.close(); conn.close() once more.
log_booking_to_history_conn(fail, second) ==
    IF fail = "pool"
    THEN ConnUse(0, 0, FALSE, TRUE, "AttributeError")
    ELSE ConnUse(1, 2, fail # "none", fail # "none",
                 IF second = "raises" THEN "AttributeError" ELSE Unset)

\* DatabaseService.update_session_analytics: the same skeleton.
update_session_analytics_conn(fail, second) ==
    IF fail = "pool"
    THEN ConnUse(0, 0, FALSE, TRUE, "AttributeError")
    ELSE ConnUse(1, 2, fail # "none", fail # "none",
                 IF second = "raises" THEN "AttributeError" ELSE Unset)

\* DatabaseService.create_booking: try / except Error: log, rollback if
\* conn, raise / finally: guarded closes.  `conn` is unbound in the except
\* block when get_connection raised.
create_booking_conn(fail) ==
    IF fail = "pool"
    THEN ConnUse(0, 0, FALSE, TRUE, "UnboundLocalError")
    ELSE ConnUse(1, 1, fail # "none", fail # "none", IF fail = "none" THEN Unset ELSE "Error")

\* DatabaseService.reschedule_booking: try / except Error: log / finally:
\* cursor.close(); conn.close().
reschedule_booking_conn(fail) ==
    IF fail = "pool"
    THEN ConnUse(0, 0, FALSE, TRUE, "UnboundLocalError")
    ELSE ConnUse(1, 1, FALSE, fail # "none", Unset)

\* Failures a call can meet: get_connection fails for certain once every
\* connection of the pool is checked out.
Failures(out) == IF out >= pool_size THEN {"pool"} ELSE FailPoints

\* Callers of the users table working at the same time.
DbCallers == {1, 2}

IdleDbCall ==
    [pc |-> "idle", op |-> Unset, phone |-> <<>>, result |-> NULL]

DbInit ==
    /\ pool = 0
    /\ users = <<>>
    /\ bookings = <<>>
    /\ booking_history = <<>>
    /\ session_analytics = {}
    /\ dbcall = [c \in DbCallers |-> IdleDbCall]
    /\ lastDb = NoCall

\* A room some crashed earlier session may have left at the provider.
StaleRoomChoices == {{}, {generate_room_name("toothfairy", 1)}}

Init ==
    /\ now = 0
    /\ ticks = 0
    /\ lastLogin = NoCall
    /\ prevLogin = NoCall
    /\ lastVerify = NoCall
    /\ lastMint = NoCall
    /\ env \in EnvChoices
    /\ sessions = <<>>
    /\ rooms \in StaleRoomChoices
    /\ dispatches = {}
    /\ req = [r \in Requests |-> IdleRequest]
    /\ dispatch_reply = AgentDispatch
    /\ DbInit

\* The clock advances.
Tick ==
    /\ ticks < MaxTicks
    /\ \E d \in TickDeltas : now' = now + d
    /\ ticks' = ticks + 1
    /\ UNCHANGED <<authVars, flowVars, dbVars>>

\* POST /api/v1/login; db_ok = FALSE is get_connection raising, which takes no
\* connection (a query that fails after it is DbLogin's case).
Login ==
    /\ jwt_utils_loaded
    /\ \E email \in Emails, password \in Passwords, db_ok \in BOOLEAN :
        LET request == [email |-> email, password |-> password]
        IN  /\ lastLogin' = [kind |-> "login", request |-> request, db_ok |-> db_ok,
                             at |-> now, resp |-> login(request, db_ok, now)]
            /\ prevLogin' = lastLogin
            /\ UNCHANGED <<now, ticks, lastVerify, lastMint, flowVars, dbVars>>

\* Bearer strings a client can forge.
ForgedTokens ==
    { Garbage,
      jwt_encode([email |-> "doc@example.com", id |-> 7, exp |-> 3 * EXPIRE_SECONDS],
                 "attacker-key", ALGORITHM),
      jwt_encode([email |-> "doc@example.com", id |-> 7, exp |-> 3 * EXPIRE_SECONDS],
                 SECRET_KEY, "HS512") }

IssuedTokens ==
    {c.resp.token : c \in {l \in {lastLogin, prevLogin} :
                              l.kind = "login" /\ l.resp.success}}

\* verify_token(token)
VerifyToken ==
    /\ jwt_utils_loaded
    /\ \E token \in IssuedTokens \cup ForgedTokens :
        /\ lastVerify' = [kind |-> "verify", token |-> token, at |-> now,
                          out |-> verify_token(token, now)]
        /\ UNCHANGED <<now, ticks, lastLogin, prevLogin, lastMint, flowVars, dbVars>>

NextAuth == Tick \/ Login \/ VerifyToken

InitAuth == Init /\ env = FullEnv /\ rooms = {}

SpecAuth == InitAuth /\ [][NextAuth]_vars

\* ------------------------------------------------------ create_session flow
\* Bearer strings presented at time `at`: tokens login issued just now, tokens
\* it issued 24 hours ago, forgeries, and the join token an earlier
\* create_session handed to the same client.
Caller == [email |-> "doc@example.com", id |-> 7]

EarlierJoinToken(at) ==
    join_token(generate_room_name("toothfairy", 1), generate_participant_identity(1),
               Caller.email, getenv(env, "LIVEKIT_API_KEY"),
               getenv(env, "LIVEKIT_API_SECRET"), at)

BearerInputs(at) ==
    {create_access_token(Caller, at), create_access_token(Caller, at - EXPIRE_SECONDS)}
      \cup ForgedTokens \cup {EarlierJoinToken(at)}

\* A bug: the waits are time.sleep: a waiting flow keeps the event loop.
sleep_holds_loop_blocking(pc) == pc \in {"sleep_settle", "sleep_ready"}

\* await asyncio.sleep(2), await asyncio.sleep(8): the waiting coroutine is
\* suspended and the event loop runs the other requests.
sleep_holds_loop(pc) == FALSE

\* The event loop can run request r: no other request keeps the loop.
Runnable(r) == \A q \in DOMAIN req : q # r => ~sleep_holds_loop(req[q].pc)

\* What one request's record becomes; everything else stays.
SetReq(r, new) == req' = [req EXCEPT ![r] = new]

\* A bug: the metadata is built before the session record exists.
dispatch_metadata_unlinked(session_id, user_id, user_email, at) ==
    [session_id |-> Unset, user_id |-> user_id, user_email |-> user_email,
     created_at |-> at]

\* dispatch_metadata of create_session
dispatch_metadata(session_id, user_id, user_email, at) ==
    [session_id |-> session_id, user_id |-> user_id, user_email |-> user_email,
     created_at |-> at]

\* POST /api/v1/token, from the verify_jwt_token dependency up to the first
\* provider round-trip: validate_environment, the random names,
\* db.create_session, the dispatch metadata.
StartSession(r) ==
    /\ jwt_utils_loaded
    /\ req[r].pc = "idle"
    /\ Runnable(r)
    /\ \E token \in BearerInputs(now), u1 \in 1..MaxUuid, u2 \in 1..MaxUuid, db_ok \in BOOLEAN, failure \in FailPoints \ {"none"} :
         LET v == verify_jwt_token(token, now)
             me == [req[r] EXCEPT !.bearer = token, !.started_at = now]
             config == validate_environment(env)
             room_name == generate_room_name("toothfairy", u1)
             participant_identity == generate_participant_identity(u2)
             table == db_create_session(sessions, room_name, now)
             fail == IF pool >= pool_size THEN "pool"
                     ELSE IF db_ok THEN "none" ELSE failure
             use == create_session_conn(fail)
             session_id == table[Len(table)].session_id
             user_email == dict_get(v.payload, "email", "unknown")
             user_id == dict_get(v.payload, "id", None)
             named == [me EXCEPT !.payload = v.payload, !.room_name = room_name,
                                 !.participant_identity = participant_identity,
                                 !.unique_id = Hex(u1),
                                 !.user_email = user_email, !.user_id = user_id]
         IN  IF v.kind = "raised"
             THEN /\ SetReq(r, [me EXCEPT !.pc = "done", !.resp = ErrorResponse(v)])
                  /\ UNCHANGED <<sessions, pool>>
             ELSE IF config # <<>>
             THEN /\ SetReq(r, [me EXCEPT !.pc = "done", !.payload = v.payload,
                         !.resp = ErrorResponse(HTTPException(500,
                                      <<"Configuration error: ">> \o config))])
                  /\ UNCHANGED <<sessions, pool>>
             ELSE IF fail # "none"
             THEN /\ SetReq(r, [named EXCEPT !.pc = after_db_create_session(FALSE),
                         !.calls = <<Call("db.create_session", room_name, FALSE, "db error")>>,
                         !.conns = StillOut(use),
                         !.resp = ErrorResponse(HTTPException(500,
                                      <<"Failed to create session: ", "db error">>))])
                  /\ UNCHANGED sessions
                  /\ pool' = pool + StillOut(use)
             ELSE /\ sessions' = table
                  /\ pool' = pool + StillOut(use)
                  /\ SetReq(r, [named EXCEPT !.pc = after_db_create_session(TRUE),
                         !.session_id = session_id,
                         !.conns = StillOut(use),
                         !.dispatch_id = "uuid-" \o ToString(r),
                         !.metadata = dispatch_metadata(session_id, user_id, user_email, now),
                         !.calls = <<Call("db.create_session", room_name, TRUE, Unset)>>])
    /\ UNCHANGED <<now, ticks, authVars, env, dispatch_reply, rooms, dispatches, users, bookings, booking_history, session_analytics, dbcall, lastDb>>

\* STEP 1: rooms = await lkapi.room.list_rooms(); the log keeps whether the
\* listing held a room of the requested name.
ListRooms(r) ==
    /\ req[r].pc = "list_rooms"
    /\ Runnable(r)
    /\ \E ok \in BOOLEAN :
         LET existing_room == req[r].room_name \in rooms
         IN  SetReq(r, [req[r] EXCEPT
                 !.pc = after_list_rooms(ok, existing_room),
                 !.calls = Append(@, Call("list_rooms", req[r].room_name, ok,
                                          IF ~ok THEN "error"
                                          ELSE IF existing_room THEN "listed"
                                          ELSE "not listed"))])
    /\ UNCHANGED <<now, ticks, authVars, env, dispatch_reply, sessions, rooms, dispatches, dbVars>>

\* STEP 1: await lkapi.room.delete_room(RoomDeleteRequest(room=room_name))
DeleteRoom(r) ==
    /\ req[r].pc = "delete_room"
    /\ Runnable(r)
    /\ \E ok \in BOOLEAN :
         /\ SetReq(r, [req[r] EXCEPT
                !.pc = after_delete_room(ok),
                !.wake = IF ok THEN now + SettleSeconds ELSE @,
                !.calls = Append(@, Call("delete_room", req[r].room_name, ok, Unset))])
         /\ rooms' = IF ok THEN rooms \ {req[r].room_name} ELSE rooms
         /\ dispatches' = IF ok THEN {d \in dispatches : d.room # req[r].room_name}
                          ELSE dispatches
    /\ UNCHANGED <<now, ticks, authVars, env, dispatch_reply, sessions, dbVars>>

\* STEP 1: await asyncio.sleep(2) is over.
SettleWaitOver(r) ==
    /\ req[r].pc = "sleep_settle"
    /\ Runnable(r)
    /\ now' = IF now < req[r].wake THEN req[r].wake ELSE now
    /\ SetReq(r, [req[r] EXCEPT
           !.pc = "create_dispatch",
           !.calls = Append(@, Call("sleep(2)", req[r].room_name, TRUE, Unset))])
    /\ UNCHANGED <<ticks, authVars, env, dispatch_reply, sessions, rooms, dispatches, dbVars>>

\* STEP 2: dispatch = await lkapi.agent_dispatch.create_dispatch(...)
CreateDispatch(r) ==
    /\ req[r].pc = "create_dispatch"
    /\ Runnable(r)
    /\ \/ /\ SetReq(r, [req[r] EXCEPT
                 !.pc = after_create_dispatch(TRUE),
                 !.dispatch_id = dispatch_id_from(dispatch_reply, @),
                 !.wake = now + ReadySeconds,
                 !.calls = Append(@, Call("create_dispatch", req[r].room_name, TRUE, Unset))])
          /\ rooms' = rooms \cup {req[r].room_name}
          /\ dispatches' = dispatches \cup
                 {[room |-> req[r].room_name, agent_name |-> DefaultAgentName,
                   metadata |-> req[r].metadata]}
       \/ /\ \E error \in ProviderErrors :
                SetReq(r, [req[r] EXCEPT
                    !.pc = after_create_dispatch(FALSE),
                    !.calls = Append(@, Call("create_dispatch", req[r].room_name, FALSE, error))])
          /\ UNCHANGED <<rooms, dispatches>>
    /\ UNCHANGED <<now, ticks, authVars, env, dispatch_reply, sessions, dbVars>>

\* STEP 3: await asyncio.sleep(8) is over.
ReadyWaitOver(r) ==
    /\ req[r].pc = "sleep_ready"
    /\ Runnable(r)
    /\ now' = IF now < req[r].wake THEN req[r].wake ELSE now
    /\ SetReq(r, [req[r] EXCEPT
           !.pc = "list_participants",
           !.calls = Append(@, Call("sleep(8)", req[r].room_name, TRUE, Unset))])
    /\ UNCHANGED <<ticks, authVars, env, dispatch_reply, sessions, rooms, dispatches, dbVars>>

\* STEP 4: participants = await lkapi.room.list_participants(...); whatever it
\* shows, and also when it raises, the flow goes on.
ListParticipants(r) ==
    /\ req[r].pc = "list_participants"
    /\ Runnable(r)
    /\ \E seen \in {"agent", "no agent", "error"} :
         SetReq(r, [req[r] EXCEPT
             !.pc = after_list_participants(seen),
             !.calls = Append(@, Call("list_participants", req[r].room_name,
                                      seen # "error", seen))])
    /\ UNCHANGED <<now, ticks, authVars, env, dispatch_reply, sessions, rooms, dispatches, dbVars>>

\* finally: await lkapi.aclose(); then STEP 5, the return of the dispatch
\* result, and create_session's reply.
CloseAndReply(r) ==
    /\ req[r].pc = "aclose"
    /\ Runnable(r)
    /\ LET me == req[r]
           access_token == join_token(me.room_name, me.participant_identity,
                               me.user_email, getenv(env, "LIVEKIT_API_KEY"),
                               getenv(env, "LIVEKIT_API_SECRET"), now)
           dispatch_result == DispatchResult(me.dispatch_id, me.room_name,
                                  me.participant_identity, me.user_email,
                                  access_token, getenv(env, "LIVEKIT_URL"),
                                  DefaultAgentName, me.metadata)
       IN  SetReq(r, [me EXCEPT
               !.pc = "done",
               !.calls = @ \o <<Call("aclose", me.room_name, TRUE, Unset),
                                Call("mint_token", me.room_name, TRUE, Unset)>>,
               !.minted = access_token,
               !.outcome = dispatch_result,
               !.resp = SessionCreateResponse(TRUE,
                            <<"Session created successfully with agent dispatch">>,
                            response_data(me.user_id, me.user_email, me.session_id,
                                env, me.room_name, me.participant_identity,
                                dispatch_result),
                            None)])
    /\ UNCHANGED <<now, ticks, authVars, env, dispatch_reply, sessions, rooms, dispatches, dbVars>>

\* finally: await lkapi.aclose(); then the re-raised dispatch error becomes
\* the helper's HTTPException and create_session's 500.
CloseAndFail(r) ==
    /\ req[r].pc = "aclose_failed"
    /\ Runnable(r)
    /\ LET me == req[r]
           dispatch_error == me.calls[Len(me.calls)].error
           raised == HTTPException(500,
                         <<"Failed to create agent dispatch: ", dispatch_error>>)
       IN  SetReq(r, [me EXCEPT
               !.pc = "done",
               !.calls = Append(@, Call("aclose", me.room_name, TRUE, Unset)),
               !.outcome = raised,
               !.resp = ErrorResponse(HTTPException(500,
                            <<"Failed to create session: ">> \o StrHTTPException(raised)))])
    /\ UNCHANGED <<now, ticks, authVars, env, dispatch_reply, sessions, rooms, dispatches, dbVars>>

Next ==
    \E r \in Requests :
        \/ StartSession(r)
        \/ ListRooms(r)
        \/ DeleteRoom(r)
        \/ SettleWaitOver(r)
        \/ CreateDispatch(r)
        \/ ReadyWaitOver(r)
        \/ ListParticipants(r)
        \/ CloseAndReply(r)
        \/ CloseAndFail(r)

Spec == Init /\ [][Next]_vars

\* --------------------------------------------- other signing secrets
InitSecrets ==
    /\ now = 0
    /\ ticks = 0
    /\ lastLogin = NoCall
    /\ prevLogin = NoCall
    /\ lastVerify = NoCall
    /\ lastMint = NoCall
    /\ env \in SecretChoices
    /\ sessions = <<>>
    /\ rooms \in StaleRoomChoices
    /\ dispatches = {}
    /\ req = [r \in Requests |-> IdleRequest]
    /\ dispatch_reply = AgentDispatch
    /\ DbInit

SpecSecrets == InitSecrets /\ [][Next]_vars

\* ------------------------------------------------- two requests at a time
\* Two create_session calls, free to overlap in any way.
Pair == {1, 2}

InitPair ==
    /\ now = 0
    /\ ticks = 0
    /\ lastLogin = NoCall
    /\ prevLogin = NoCall
    /\ lastVerify = NoCall
    /\ lastMint = NoCall
    /\ env = FullEnv
    /\ sessions = <<>>
    /\ rooms \in StaleRoomChoices
    /\ dispatches = {}
    /\ req = [r \in Pair |-> IdleRequest]
    /\ dispatch_reply = AgentDispatch
    /\ DbInit

NextPair ==
    \E r \in Pair :
        \/ StartSession(r)
        \/ ListRooms(r)
        \/ DeleteRoom(r)
        \/ SettleWaitOver(r)
        \/ CreateDispatch(r)
        \/ ReadyWaitOver(r)
        \/ ListParticipants(r)
        \/ CloseAndReply(r)
        \/ CloseAndFail(r)

SpecPair == InitPair /\ [][NextPair]_vars

\* ------------------------------------------------- the token helper alone
\* Lifetimes a caller asks for; 86400 is the default of the parameter.
TtlChoices == {3600, 86400}

\* generate_livekit_token(room_name, participant_identity, session_id, ...,
\* token_ttl)
GenerateLivekitToken ==
    /\ jwt_utils_loaded
    /\ \E u1 \in 1..MaxUuid, u2 \in 1..MaxUuid, token_ttl \in TtlChoices :
         LET room_name == generate_room_name("toothfairy", u1)
             participant_identity == generate_participant_identity(u2)
         IN  lastMint' = [kind |-> "mint", room_name |-> room_name,
                          participant_identity |-> participant_identity,
                          token_ttl |-> token_ttl, at |-> now,
                          token |-> generate_livekit_token(room_name,
                                        participant_identity, "sess_1",
                                        getenv(env, "LIVEKIT_URL"),
                                        getenv(env, "LIVEKIT_API_KEY"),
                                        getenv(env, "LIVEKIT_API_SECRET"),
                                        token_ttl, now)]
    /\ UNCHANGED <<now, ticks, lastLogin, prevLogin, lastVerify, flowVars, dbVars>>

NextMedia == Next \/ GenerateLivekitToken

SpecMedia == Init /\ [][NextMedia]_vars

\* ------------------------------------------------- the sessions table alone
Durations == {NULL, 30, 60}

\* What lastDb keeps of a completed persistence call: `before` and `after`
\* are the checked-out connections when it began and when it ended, of which
\* the difference is kept; value is the number of the row the call returned
\* the id of, NULL when it returned none.
DbCall(op, args, fail, use, before, after, value) ==
    [kind |-> "db", op |-> op, args |-> args, fail |-> fail, use |-> use,
     left_out |-> after - before, value |-> value]

\* DatabaseService.create_session(room_name), called directly.
DbCreateSession ==
    /\ Len(sessions) < MaxSessions
    /\ \E u \in 1..MaxUuid, fail \in Failures(pool) :
         LET room_name == generate_room_name("toothfairy", u)
             use == create_session_conn(fail)
             table == db_create_session(sessions, room_name, now)
         IN  /\ sessions' = IF fail = "none" THEN table ELSE sessions
             /\ pool' = pool + StillOut(use)
             /\ lastDb' = DbCall("create_session", <<room_name>>, fail, use, pool, pool',
                                 IF fail = "none" THEN Len(table) ELSE NULL)
    /\ UNCHANGED <<now, ticks, authVars, env, dispatch_reply, rooms, dispatches, req, users, bookings, booking_history, session_analytics, dbcall>>

\* DatabaseService.end_session(session_id, duration_seconds)
EndSession ==
    /\ \E i \in DOMAIN sessions, duration_seconds \in Durations, fail \in Failures(pool) :
         LET use == end_session_conn(fail)
         IN  /\ sessions' = IF fail = "none"
                            THEN db_end_session(sessions, sessions[i].session_id,
                                                duration_seconds, now)
                            ELSE sessions
             /\ pool' = pool + StillOut(use)
             /\ lastDb' = DbCall("end_session", <<sessions[i].session_id, duration_seconds>>,
                                 fail, use, pool, pool', NULL)
    /\ UNCHANGED <<now, ticks, authVars, env, dispatch_reply, rooms, dispatches, req, users, bookings, booking_history, session_analytics, dbcall>>

NextDb == Tick \/ DbCreateSession \/ EndSession

SpecDb == InitAuth /\ [][NextDb]_vars

\* ------------------------------------------------------- the users table
\* Phone numbers are strings, one character per element.
Digits == {"0", "1", "2", "3", "4", "5", "6", "7", "8", "9"}

\* ''.join(filter(str.isdigit, phone))
normalize_phone(phone) == SelectSeq(phone, LAMBDA ch : ch \in Digits)

\* REPLACE(REPLACE(REPLACE(phone, '-', ''), ' ', ''), '+', '')
sql_replace(phone) == SelectSeq(phone, LAMBDA ch : ch \notin {"-", " ", "+"})

\* SELECT user_id FROM users WHERE REPLACE(...) = %s; fetchone(): the first
\* matching row, NULL when there is none.
db_find_user(table, normalized_phone) ==
    LET hits == {i \in DOMAIN table : sql_replace(table[i].phone) = normalized_phone}
    IN  IF hits = {} THEN NULL
        ELSE table[CHOOSE i \in hits : \A j \in hits : i <= j].user_id

\* UPDATE users SET last_contact_date = %s WHERE user_id = %s
db_touch_user(table, user_id, at) ==
    [i \in DOMAIN table |->
        IF table[i].user_id = user_id
        THEN [table[i] EXCEPT !.last_contact_date = at]
        ELSE table[i]]

\* A bug: the UPDATE of a matching user also stores the name and email passed.
db_touch_user_overwriting(table, user_id, name, email, at) ==
    [i \in DOMAIN table |->
        IF table[i].user_id = user_id
        THEN [table[i] EXCEPT !.last_contact_date = at, !.name = name, !.email = email]
        ELSE table[i]]

\* What upsert_user_contact writes for a user it found: last_contact_date
\* only; name and email are not part of the statement.
db_update_found_user(table, user_id, name, email, at) == db_touch_user(table, user_id, at)

\* INSERT INTO users (phone, name, email, first_contact_date,
\* last_contact_date); user_id is AUTO_INCREMENT, total_bookings starts at 0.
db_insert_user(table, phone, name, email, at) ==
    Append(table,
           [user_id |-> Len(table) + 1, phone |-> phone, name |-> name,
            email |-> email, first_contact_date |-> at, last_contact_date |-> at,
            total_bookings |-> 0])

\* str.strip(): text is kept as a sequence of pieces, blanks being pieces.
strip(text) == SelectSeq(text, LAMBDA piece : piece # " ")

\* Phones callers pass: one number written plainly, with a dash and with
\* parentheses, and a second number.
Phones ==
    { <<"5", "5", "1">>, <<"5", "5", "-", "1">>, <<"(", "5", "5", ")", "1">>,
      <<"5", "5", "2">> }

Contacts ==
    { [name |-> <<"Ann">>, email |-> <<"ann@example.com">>],
      [name |-> <<" ", "Bob">>, email |-> <<"bob@example.com", " ">>] }

UserOps == {"get_or_create_user", "upsert_user_contact"}

\* Callers that found no user and have not inserted yet.
PendingInserts == Cardinality({c \in DOMAIN dbcall : dbcall[c].pc = "absent"})

\* get_or_create_user / upsert_user_contact up to the answer of the SELECT:
\* get_connection, the normalisation of the phone, the lookup.  The name and
\* email arguments are drawn where the call first reads them, in UserWrite.
UserLookup(c) ==
    /\ dbcall[c].pc = "idle"
    /\ \E op \in UserOps, phone \in Phones, fail \in Failures(pool) \ {"commit"} :
         LET result == db_find_user(users, normalize_phone(phone))
             use == ConnUse(IF fail = "pool" THEN 0 ELSE 1, IF fail = "pool" THEN 0 ELSE 1,
                            fail = "execute", TRUE,
                            IF fail = "pool" THEN "UnboundLocalError" ELSE "Error")
         IN  IF fail # "none"
             THEN /\ lastDb' = DbCall(op, <<phone>>, fail, use, pool, pool, None)
                  /\ UNCHANGED <<pool, dbcall>>
             ELSE /\ result = NULL => Len(users) + PendingInserts < MaxRows
                  /\ pool' = pool + 1
                  /\ dbcall' = [dbcall EXCEPT ![c] =
                         [pc |-> IF result = NULL THEN "absent" ELSE "found",
                          op |-> op, phone |-> phone, result |-> result]]
                  /\ UNCHANGED lastDb
    /\ UNCHANGED <<now, ticks, authVars, flowVars, users, bookings, booking_history, session_analytics>>

\* The rest of the call: the UPDATE of the user found or the INSERT of a new
\* one, the commit, the closes of the finally block.
UserWrite(c) ==
    /\ dbcall[c].pc \in {"found", "absent"}
    /\ \E contact \in Contacts, fail \in {"none", "execute", "commit"} :
         LET me == dbcall[c]
             upsert == me.op = "upsert_user_contact"
             name == IF upsert THEN strip(contact.name) ELSE contact.name
             email == IF upsert THEN strip(contact.email) ELSE contact.email
             inserted == db_insert_user(users, me.phone, name, email, now)
             use == ConnUse(1, 1, fail # "none", fail # "none",
                            IF fail = "none" THEN Unset ELSE "Error")
         IN  /\ users' = IF fail # "none" THEN users
                         ELSE IF me.pc = "found"
                         THEN IF upsert
                              THEN db_update_found_user(users, me.result, contact.name,
                                                        contact.email, now)
                              ELSE db_touch_user(users, me.result, now)
                         ELSE inserted
             /\ lastDb' = DbCall(me.op, <<contact.name, contact.email>>, fail, use,
                                 pool - 1, pool - 1,
                                 IF fail # "none" THEN NULL
                                 ELSE IF me.pc = "found" THEN me.result
                                 ELSE inserted[Len(inserted)].user_id)
             /\ pool' = pool - 1
             /\ dbcall' = [dbcall EXCEPT ![c] = IdleDbCall]
    /\ UNCHANGED <<now, ticks, authVars, flowVars, bookings, booking_history, session_analytics>>

NextUsers == \E c \in DbCallers : UserLookup(c) \/ UserWrite(c)

SpecUsers == InitAuth /\ [][NextUsers]_vars

\* A users table as an earlier call left it: one patient, first contact at
\* time 0.
UsersOnFile ==
    db_insert_user(<<>>, <<"5", "5", "-", "1">>, <<"Ann">>, <<"ann@example.com">>, 0)

\* One caller at a time, some time after the first contact.
Solo == {1}

InitSolo ==
    /\ now = 1
    /\ ticks = 0
    /\ lastLogin = NoCall
    /\ prevLogin = NoCall
    /\ lastVerify = NoCall
    /\ lastMint = NoCall
    /\ env = FullEnv
    /\ sessions = <<>>
    /\ rooms = {}
    /\ dispatches = {}
    /\ req = [r \in Requests |-> IdleRequest]
    /\ dispatch_reply = AgentDispatch
    /\ pool = 0
    /\ users \in {<<>>, UsersOnFile}
    /\ bookings = <<>>
    /\ booking_history = <<>>
    /\ session_analytics = {}
    /\ dbcall = [c \in Solo |-> IdleDbCall]
    /\ lastDb = NoCall

NextSolo == \E c \in Solo : UserLookup(c) \/ UserWrite(c)

SpecSolo == InitSolo /\ [][NextSolo]_vars

\* ---------------------------------------- bookings, history and analytics
\* DATE(t), as a day number.
SecondsPerDay == 24 * 60 * 60
DayOf(t) == t \div SecondsPerDay

\* timedelta(minutes=30)
SlotSeconds == 30 * 60

\* Appointment times callers ask for.
ApptTimes == {SecondsPerDay + 9 * 60 * 60, SecondsPerDay + 10 * 60 * 60}

\* INSERT INTO bookings (...) VALUES (..., 'confirmed', ...); booking_id is
\* book_ and 12 hex digits of a uuid4, created_at the column default.
db_create_booking(table, session_id, user_id, appointment_start, appointment_end, at) ==
    Append(table,
           [booking_id |-> "book_" \o ToString(Len(table) + 1),
            session_id |-> session_id, user_id |-> user_id,
            appointment_start_time |-> appointment_start,
            appointment_end_time |-> appointment_end,
            service_type |-> None, status |-> "confirmed", notes |-> None,
            calcom_uid |-> None, created_at |-> at])

\* UPDATE users SET total_bookings = total_bookings + 1 WHERE user_id = %s
db_count_booking(table, user_id) ==
    [i \in DOMAIN table |->
        IF table[i].user_id = user_id
        THEN [table[i] EXCEPT !.total_bookings = @ + 1]
        ELSE table[i]]

\* SELECT appointment_start_time FROM bookings WHERE booking_id = %s;
\* fetchone(): NULL when there is no such booking.
db_booking_start(table, booking_id) ==
    LET hits == {i \in DOMAIN table : table[i].booking_id = booking_id}
    IN  IF hits = {} THEN NULL
        ELSE table[CHOOSE i \in hits : TRUE].appointment_start_time

\* UPDATE bookings SET appointment_start_time, appointment_end_time,
\* status = 'rescheduled' WHERE booking_id = %s
db_reschedule(table, booking_id, new_appointment_time) ==
    [i \in DOMAIN table |->
        IF table[i].booking_id = booking_id
        THEN [table[i] EXCEPT !.appointment_start_time = new_appointment_time,
                              !.appointment_end_time = new_appointment_time + SlotSeconds,
                              !.status = "rescheduled"]
        ELSE table[i]]

\* INSERT INTO booking_history (booking_id, old_appointment_time,
\* new_appointment_time, change_reason, changed_by, changed_at)
db_log_reschedule(table, booking_id, old_time, new_appointment_time, reason, at) ==
    Append(table,
           [booking_id |-> booking_id, old_appointment_time |-> old_time,
            new_appointment_time |-> new_appointment_time, change_reason |-> reason,
            changed_by |-> "system", changed_at |-> at])

\* INSERT INTO booking_history (booking_id, action, appointment_start_time,
\* changed_at, notes)
db_log_history(table, booking_id, reason, appointment_start_time, at) ==
    Append(table,
           [booking_id |-> booking_id, action |-> reason,
            appointment_start_time |-> appointment_start_time, changed_at |-> at,
            notes |-> <<"Booking ", reason, " via AI agent">>])

\* Booking ids callers pass: those on file and one that is not.
BookingIdChoices == {bookings[i].booking_id : i \in DOMAIN bookings} \cup {"book_0"}

UserIdChoices == {users[i].user_id : i \in DOMAIN users}

\* DatabaseService.create_booking(session_id, user_id, appointment_start,
\* appointment_end)
CreateBooking ==
    /\ Len(bookings) < MaxRows
    /\ sessions # <<>>
    /\ \E user_id \in UserIdChoices, appointment_start \in ApptTimes, fail \in Failures(pool) :
         LET use == create_booking_conn(fail)
             table == db_create_booking(bookings, sessions[1].session_id, user_id, appointment_start,
                                        appointment_start + SlotSeconds, now)
         IN  /\ bookings' = IF fail = "none" THEN table ELSE bookings
             /\ users' = IF fail = "none" THEN db_count_booking(users, user_id) ELSE users
             /\ pool' = pool + StillOut(use)
             /\ lastDb' = DbCall("create_booking", <<>>, fail, use, pool, pool',
                                 IF fail = "none" THEN Len(table) ELSE NULL)
    /\ UNCHANGED <<now, ticks, authVars, flowVars, booking_history, session_analytics, dbcall>>

\* DatabaseService.reschedule_booking(booking_id, new_appointment_time, reason)
RescheduleBooking ==
    /\ Len(booking_history) < MaxRows
    /\ \E booking_id \in BookingIdChoices, new_appointment_time \in ApptTimes, fail \in Failures(pool) :
         LET use == reschedule_booking_conn(fail)
             old_time == db_booking_start(bookings, booking_id)
         IN  /\ bookings' = IF fail = "none"
                            THEN db_reschedule(bookings, booking_id, new_appointment_time)
                            ELSE bookings
             /\ booking_history' =
                    IF fail = "none"
                    THEN db_log_reschedule(booking_history, booking_id, old_time,
                                           new_appointment_time, None, now)
                    ELSE booking_history
             /\ pool' = pool + StillOut(use)
             /\ lastDb' = DbCall("reschedule_booking", <<>>, fail, use, pool, pool', NULL)
    /\ UNCHANGED <<now, ticks, authVars, flowVars, users, session_analytics, dbcall>>

\* DatabaseService.log_booking_to_history(booking_id, appointment_start_time,
\* reason): without a start time the booking is looked up, and the call
\* returns early when there is none.
LogBookingToHistory ==
    /\ Len(booking_history) < MaxRows
    /\ \E booking_id \in BookingIdChoices, appointment_start_time \in {NULL} \cup ApptTimes, fail \in Failures(pool), second \in SecondClose :
         LET use == log_booking_to_history_conn(fail, second)
             start == IF appointment_start_time # NULL THEN appointment_start_time
                      ELSE db_booking_start(bookings, booking_id)
         IN  /\ booking_history' =
                    IF fail = "none" /\ start # NULL
                    THEN db_log_history(booking_history, booking_id, "initial_booking",
                                        start, now)
                    ELSE booking_history
             /\ pool' = pool + StillOut(use)
             /\ lastDb' = DbCall("log_booking_to_history", <<>>, fail, use, pool, pool', NULL)
    /\ UNCHANGED <<now, ticks, authVars, flowVars, users, bookings, session_analytics, dbcall>>

RECURSIVE SumDurations(_, _)
SumDurations(table, rows) ==
    IF rows = {} THEN 0
    ELSE LET i == CHOOSE k \in rows : TRUE
         IN  table[i].duration_seconds + SumDurations(table, rows \ {i})

\* The row update_session_analytics computes for a day: COUNT, AVG (NULL
\* durations left out, quotient in whole seconds) and SUM over today's
\* sessions and bookings, each `or 0`.
analytics_row(today) ==
    LET completed == {i \in DOMAIN sessions :
                         DayOf(sessions[i].start_time) = today
                         /\ sessions[i].status = "completed"}
        timed == {i \in completed : sessions[i].duration_seconds # NULL}
        booked == {i \in DOMAIN bookings : DayOf(bookings[i].created_at) = today}
    IN  [date |-> today,
         total_sessions |-> Cardinality(completed),
         total_users |-> Cardinality({bookings[i].user_id : i \in booked}),
         total_bookings |-> Cardinality(booked),
         successful_bookings |->
             Cardinality({i \in booked : bookings[i].status = "confirmed"}),
         cancelled_bookings |->
             Cardinality({i \in booked : bookings[i].status = "cancelled"}),
         avg_session_duration_seconds |->
             IF timed = {} THEN 0
             ELSE SumDurations(sessions, timed) \div Cardinality(timed)]

\* DatabaseService.update_session_analytics(): UPDATE of the day's row when
\* there is one, INSERT otherwise.
UpdateSessionAnalytics ==
    /\ \E fail \in Failures(pool), second \in SecondClose :
         LET use == update_session_analytics_conn(fail, second)
             today == DayOf(now)
             existing == {a \in session_analytics : a.date = today}
         IN  /\ session_analytics' =
                    IF fail = "none"
                    THEN (session_analytics \ existing) \cup {analytics_row(today)}
                    ELSE session_analytics
             /\ pool' = pool + StillOut(use)
             /\ lastDb' = DbCall("update_session_analytics", <<>>, fail, use, pool, pool', NULL)
    /\ UNCHANGED <<now, ticks, authVars, flowVars, users, bookings, booking_history, dbcall>>

\* DatabaseService.login(email, password), called directly.
DbLogin ==
    /\ \E email \in Emails, password \in Passwords, fail \in Failures(pool) \ {"commit"} :
         LET use == login_conn(fail)
             user == FetchOne(SelectUser(email, sha256(password)))
         IN  /\ pool' = pool + StillOut(use)
             /\ lastDb' = DbCall("login", <<>>, fail, use, pool, pool',
                                 IF fail = "none" /\ user # None THEN user.id ELSE NULL)
    /\ UNCHANGED <<now, ticks, authVars, flowVars, users, bookings, booking_history, session_analytics, dbcall>>

\* The calls of the login and session endpoints.
NextConn == DbLogin \/ DbCreateSession \/ EndSession

SpecConn == InitAuth /\ [][NextConn]_vars

\* The booking calls of one session: a patient and an active session on file.
SessionsOnFile == db_create_session(<<>>, generate_room_name("toothfairy", 1), 0)

BookingsOnFile ==
    db_create_booking(<<>>, SessionsOnFile[1].session_id, UsersOnFile[1].user_id,
                      SecondsPerDay, SecondsPerDay + SlotSeconds, 0)

InitBook ==
    /\ now = 1
    /\ ticks = 0
    /\ lastLogin = NoCall
    /\ prevLogin = NoCall
    /\ lastVerify = NoCall
    /\ lastMint = NoCall
    /\ env = FullEnv
    /\ sessions = SessionsOnFile
    /\ rooms = {}
    /\ dispatches = {}
    /\ req = [r \in Requests |-> IdleRequest]
    /\ dispatch_reply = AgentDispatch
    /\ pool = 0
    /\ users = UsersOnFile
    /\ bookings \in {<<>>, BookingsOnFile}
    /\ booking_history = <<>>
    /\ session_analytics = {}
    /\ dbcall = [c \in Solo |-> IdleDbCall]
    /\ lastDb = NoCall

\* The multi-statement writes.
NextBook == CreateBooking \/ RescheduleBooking

SpecBook == InitBook /\ [][NextBook]_vars

\* The best-effort writes.
NextEffort == EndSession \/ LogBookingToHistory \/ UpdateSessionAnalytics

SpecEffort == InitBook /\ [][NextEffort]_vars

\* ------------------------------------------ every shape of the response
InitDispatch ==
    /\ now = 0
    /\ ticks = 0
    /\ lastLogin = NoCall
    /\ prevLogin = NoCall
    /\ lastVerify = NoCall
    /\ lastMint = NoCall
    /\ env = FullEnv
    /\ sessions = <<>>
    /\ rooms \in StaleRoomChoices
    /\ dispatches = {}
    /\ req = [r \in Requests |-> IdleRequest]
    /\ dispatch_reply \in DispatchReplies
    /\ DbInit

SpecDispatch == InitDispatch /\ [][Next]_vars

\* ---------------------------------------------- one flow, run to its end
\* The steps of create_livekit_agent_dispatch for request r, from the first
\* provider call to the return or the raise.
Progress(r) ==
    \/ ListRooms(r)
    \/ DeleteRoom(r)
    \/ SettleWaitOver(r)
    \/ CreateDispatch(r)
    \/ ReadyWaitOver(r)
    \/ ListParticipants(r)
    \/ CloseAndReply(r)
    \/ CloseAndFail(r)

InitLive ==
    /\ now = 0
    /\ ticks = 0
    /\ lastLogin = NoCall
    /\ prevLogin = NoCall
    /\ lastVerify = NoCall
    /\ lastMint = NoCall
    /\ env \in EnvChoices
    /\ sessions = <<>>
    /\ rooms \in StaleRoomChoices
    /\ dispatches = {}
    /\ req = [r \in Solo |-> IdleRequest]
    /\ dispatch_reply = AgentDispatch
    /\ DbInit

NextLive == \E r \in Solo : StartSession(r) \/ Progress(r)

\* Every provider call returns or fails and every asyncio.sleep timer fires,
\* and the event loop resumes a coroutine that can run: a step that stays
\* possible is taken.
SpecLive == InitLive /\ [][NextLive]_vars /\ \A r \in Solo : WF_vars(Progress(r))

\* ================================================================ claims
\* The stored credential a login request matches, if any.
Matches(request) ==
    \E a \in user_auth :
        a.email = request.email /\ a.password = sha256(request.password)

StoredUser(request) ==
    CHOOSE a \in user_auth :
        a.email = request.email /\ a.password = sha256(request.password)

IsLogin(l) == l.kind = "login"

\* What C8 promises of one completed login call l, given every verify_token
\* call made on its token so far.
LoginTokenGood(l) ==
    LET u == StoredUser(l.request)
        t == l.resp.token
    IN  /\ l.resp.success
        /\ t # None
        /\ l.resp.user = [id |-> u.id, email |-> u.email]
        /\ t.payload.exp = l.at + 24 * 60 * 60
        /\ verify_token(t, l.at) =
               [raised |-> FALSE,
                value |-> [email |-> u.email, id |-> u.id, exp |-> t.payload.exp]]
        /\ (lastVerify.kind = "verify" /\ lastVerify.token = t) =>
               IF lastVerify.at < l.at + 24 * 60 * 60
               THEN /\ ~lastVerify.out.raised
                    /\ lastVerify.out.value # None
                    /\ lastVerify.out.value.email = u.email
                    /\ lastVerify.out.value.id = u.id
               ELSE lastVerify.out = [raised |-> FALSE, value |-> None]

InvalidCredentialsResponse ==
    [status |-> 200, success |-> FALSE, message |-> "Invalid email or password",
     token |-> None, user |-> None]

EmailKnown(request) == \E a \in user_auth : a.email = request.email

\* C9: for every (email, password) pair that matches no stored credential,
\* login returns success=false with no token and no user, and two such
\* calls get the same response (status, fields, message) whether the email
\* is unknown or exists with another password.
C9_InvalidLoginUniform ==
    /\ \A l \in {lastLogin, prevLogin} :
          (IsLogin(l) /\ ~Matches(l.request)) =>
              /\ ~l.resp.success
              /\ l.resp.token = None
              /\ l.resp.user = None
              /\ l.db_ok => l.resp = InvalidCredentialsResponse
    /\ (/\ IsLogin(lastLogin) /\ IsLogin(prevLogin)
        /\ ~Matches(lastLogin.request) /\ ~Matches(prevLogin.request)
        /\ lastLogin.db_ok = prevLogin.db_ok)
           => lastLogin.resp = prevLogin.resp

\* C9 witness: a login with an unknown email followed by a login with a
\* known email and a wrong password, both answered.
C9_Witness ==
    /\ IsLogin(lastLogin) /\ IsLogin(prevLogin)
    /\ lastLogin.db_ok /\ prevLogin.db_ok
    /\ ~EmailKnown(prevLogin.request)
    /\ EmailKnown(lastLogin.request) /\ ~Matches(lastLogin.request)
    /\ lastLogin.resp = prevLogin.resp

\* A bearer string verify_token must accept at time `at`.
WellSignedUnexpired(token, at) ==
    /\ IsJwt(token)
    /\ token.alg = "HS256"
    /\ token.key = SECRET_KEY
    /\ token.payload.exp > at

\* C10: verify_token never raises; it returns None for every input that
\* fails decoding, is wrongly signed or has expired, returns the claims only
\* for a correctly signed unexpired token, and changes no state.
C10_VerifyTokenTotal ==
    [][ (lastVerify' # lastVerify) =>
            /\ ~lastVerify'.out.raised
            /\ IF WellSignedUnexpired(lastVerify'.token, lastVerify'.at)
               THEN lastVerify'.out.value = lastVerify'.token.payload
               ELSE lastVerify'.out.value = None
            /\ UNCHANGED <<now, ticks, lastLogin, prevLogin, dbVars>> ]_vars

\* C10 witness: verify_token was applied to a wrongly signed token and to
\* nothing else since; it returned None.
C10_Witness ==
    /\ lastVerify.kind = "verify"
    /\ lastVerify.token.kind = "jws"
    /\ lastVerify.token.key # SECRET_KEY
    /\ lastVerify.out = [raised |-> FALSE, value |-> None]

\* ------------------------------------------------------------ C1 .. C7
Ops(r) == {req[r].calls[i].op : i \in 1..Len(req[r].calls)}

PersistenceOps == {"db.create_session"}
ProviderOps == {"list_rooms", "delete_room", "create_dispatch", "list_participants"}

\* C1: a create_session request whose bearer token is expired, malformed or
\* wrongly signed ends with a 401 and invokes no persistence operation and
\* no provider operation.
C1_RejectedBearerTouchesNothing ==
    \A r \in Requests :
        (req[r].pc # "idle" /\ ~WellSignedUnexpired(req[r].bearer, req[r].started_at)) =>
            /\ req[r].pc = "done"
            /\ req[r].resp.status = 401
            /\ Ops(r) \cap (PersistenceOps \cup ProviderOps) = {}
            /\ req[r].calls = <<>>
            /\ req[r].session_id = Unset

\* C1 witness: a request with an expired, correctly signed token got its 401.
C1_Witness ==
    \E r \in Requests :
        /\ req[r].pc = "done"
        /\ req[r].bearer.kind = "jws"
        /\ req[r].bearer.key = SECRET_KEY
        /\ req[r].bearer.payload.exp <= req[r].started_at
        /\ req[r].resp.status = 401

\* The error of the request's rejected create_dispatch call, if it has one.
DispatchRejected(r) ==
    \E i \in 1..Len(req[r].calls) :
        req[r].calls[i].op = "create_dispatch" /\ ~req[r].calls[i].ok

RejectionError(r) ==
    LET i == CHOOSE j \in 1..Len(req[r].calls) :
                 req[r].calls[j].op = "create_dispatch" /\ ~req[r].calls[j].ok
    IN  req[r].calls[i].error

\* C2: when the provider's create_dispatch call fails, the dispatcher ends
\* Failed: it raises an error carrying the provider's error detail, makes
\* neither the 8-second wait nor the participant check, mints no join token
\* and returns no DispatchResult.
C2_FailedDispatchRaises ==
    \A r \in Requests :
        DispatchRejected(r) =>
            /\ req[r].pc \in {"aclose_failed", "done"}
            /\ Ops(r) \cap {"sleep(8)", "list_participants", "mint_token"} = {}
            /\ req[r].minted = None
            /\ req[r].outcome.kind # "result"
            /\ req[r].pc = "done" =>
                  /\ req[r].outcome.kind = "raised"
                  /\ Carries(req[r].outcome.detail, RejectionError(r))

\* C2 witness: a dispatch the provider rejected has been raised to the caller.
C2_Witness ==
    \E r \in Requests :
        /\ DispatchRejected(r)
        /\ req[r].pc = "done"
        /\ req[r].outcome.kind = "raised"

\* C3: whenever the dispatcher returns a DispatchResult, its join token was
\* minted strictly after the dispatch was acknowledged, the 8-second wait
\* was over and the presence check had been attempted; before those steps
\* the run has no token.
C3_TokenAfterReadiness ==
    \A r \in Requests :
        LET c == req[r].calls
        IN  /\ (req[r].minted # None \/ req[r].outcome.kind = "result") =>
                  /\ \E i \in 1..Len(c) :
                        /\ c[i].op = "create_dispatch" /\ c[i].ok
                        /\ \E j \in (i + 1)..Len(c) :
                              /\ c[j].op = "sleep(8)"
                              /\ \E k \in (j + 1)..Len(c) :
                                    /\ c[k].op = "list_participants"
                                    /\ \E m \in (k + 1)..Len(c) : c[m].op = "mint_token"
                  /\ now >= req[r].wake
                  /\ req[r].outcome.kind = "result"
                  /\ req[r].outcome.access_token = req[r].minted
            /\ "mint_token" \in Ops(r) <=> req[r].minted # None

\* C3 witness: a DispatchResult was returned although the presence check
\* itself failed.
C3_Witness ==
    \E r \in Requests :
        /\ req[r].outcome.kind = "result"
        /\ \E i \in 1..Len(req[r].calls) :
              req[r].calls[i].op = "list_participants" /\ ~req[r].calls[i].ok

\* C4: when create_session has a valid token and the dispatch submission
\* fails, the caller gets a 500 and, once the request has finished, no
\* session record it created is left 'active' without a successful dispatch.
C4_NoOrphanedActiveSession ==
    \A r \in Requests :
        (req[r].pc = "done" /\ DispatchRejected(r)) =>
            /\ req[r].resp.status = 500
            /\ \A i \in DOMAIN sessions :
                  (sessions[i].session_id = req[r].session_id
                     /\ sessions[i].status = "active") =>
                      \E d \in dispatches :
                          d.metadata.session_id = sessions[i].session_id

\* C5: every session record starts 'active', its only status change is
\* active -> completed, and once completed no later end_session call changes
\* it again or rewrites its end_time or duration.
C5_SessionEndsOnce ==
    [][ /\ \A i \in DOMAIN sessions' :
              i \notin DOMAIN sessions => sessions'[i].status = "active"
        /\ \A i \in DOMAIN sessions :
              /\ i \in DOMAIN sessions'
              /\ sessions'[i].status # sessions[i].status =>
                    (sessions[i].status = "active" /\ sessions'[i].status = "completed")
              /\ sessions[i].status = "completed" => sessions'[i] = sessions[i] ]_vars

FourPermissions == {"room_join", "can_publish", "can_subscribe", "can_publish_data"}

GrantedFlags(grants) == {f \in DOMAIN grants \ {"room"} : grants[f]}

\* C6: the join token of every returned DispatchResult carries exactly the
\* room name and participant identity of its dispatch request and grants
\* exactly join, publish, subscribe and publish-data on that one room.
C6_JoinTokenScoped ==
    \A r \in Requests :
        req[r].outcome.kind = "result" =>
            LET t == req[r].outcome.access_token
            IN  /\ t.kind = "media"
                /\ t.identity = req[r].participant_identity
                /\ t.identity = req[r].outcome.identity
                /\ t.grants.room = req[r].room_name
                /\ t.grants.room # Unset
                /\ \E i \in 1..Len(req[r].calls) :
                      /\ req[r].calls[i].op = "create_dispatch"
                      /\ req[r].calls[i].room = t.grants.room
                /\ GrantedFlags(t.grants) = FourPermissions

\* C6 witness: a DispatchResult whose token names the room a stale copy of
\* which had to be deleted first.
C6_Witness ==
    \E r \in Requests :
        /\ req[r].outcome.kind = "result"
        /\ "delete_room" \in Ops(r)
        /\ req[r].outcome.access_token.grants.room = req[r].room_name

Secrets ==
    {SECRET_KEY, getenv(env, "LIVEKIT_API_KEY"), getenv(env, "LIVEKIT_API_SECRET")}
        \ {Unset}

C11_JoinTokenExpiresAfterTtl ==
    /\ lastMint.kind = "mint" =>
          lastMint.token.payload.exp = lastMint.at + lastMint.token_ttl
    /\ \A r \in Requests :
          req[r].minted # None =>
              req[r].minted.payload.exp = req[r].minted.payload.nbf + 86400

\* Positions in request r's call log of the calls of operation op.
CallsOf(r, op) == {i \in 1..Len(req[r].calls) : req[r].calls[i].op = op}

\* The room listing of request r showed a room of the requested name.
RoomListed(r) ==
    \E i \in CallsOf(r, "list_rooms") : req[r].calls[i].error = "listed"

DeleteSucceeded(r) == \E i \in CallsOf(r, "delete_room") : req[r].calls[i].ok

\* delete_room, then sleep(2), then create_dispatch, in that order.
DeleteSettleDispatch(r) ==
    \E i \in CallsOf(r, "delete_room") :
        \E j \in CallsOf(r, "sleep(2)") :
            \E k \in CallsOf(r, "create_dispatch") : i < j /\ j < k

DeleteThenDispatch(r) ==
    \E i \in CallsOf(r, "delete_room") :
        \E k \in CallsOf(r, "create_dispatch") : i < k

\* C12 as stated: in every provisioning run, if the room listing contains a
\* room with the requested name, exactly one delete_room call is issued for
\* it and the dispatch is submitted only after that delete and the 2-second
\* settle wait; if no such room is listed, neither a delete_room call nor a
\* settle wait precedes the dispatch submission.
C12_ListedRoomDeletedAndSettled ==
    \A r \in Requests :
        CallsOf(r, "create_dispatch") # {} =>
            IF RoomListed(r)
            THEN /\ Cardinality(CallsOf(r, "delete_room")) = 1
                 /\ DeleteSettleDispatch(r)
            ELSE CallsOf(r, "delete_room") = {} /\ CallsOf(r, "sleep(2)") = {}

\* C12 amended: a listed room gets exactly one delete_room call before the
\* dispatch submission; the 2-second settle wait follows exactly when that
\* delete succeeded, and the dispatch is then submitted only once the wait
\* is over; a failed delete is followed by no wait; if no such room is
\* listed, no delete_room call and no settle wait occur.
C12_SettleOnlyAfterSuccessfulDelete ==
    \A r \in Requests :
        /\ Cardinality(CallsOf(r, "delete_room")) <= 1
        /\ (req[r].pc = "create_dispatch" /\ CallsOf(r, "sleep(2)") # {}) =>
               now >= req[r].wake
        /\ CallsOf(r, "create_dispatch") # {} =>
               IF RoomListed(r)
               THEN /\ Cardinality(CallsOf(r, "delete_room")) = 1
                    /\ DeleteThenDispatch(r)
                    /\ IF DeleteSucceeded(r)
                       THEN DeleteSettleDispatch(r)
                       ELSE CallsOf(r, "sleep(2)") = {}
               ELSE CallsOf(r, "delete_room") = {} /\ CallsOf(r, "sleep(2)") = {}

\* C12 witness: a stale room was listed, deleted, waited out and the
\* dispatch submitted two seconds or more after the request began.
C12_Witness ==
    \E r \in Requests :
        /\ RoomListed(r) /\ DeleteSucceeded(r)
        /\ DeleteSettleDispatch(r)
        /\ now >= req[r].started_at + SettleSeconds

\* Request r's room listing or room deletion failed.
CleanupFailed(r) ==
    \E i \in CallsOf(r, "list_rooms") \cup CallsOf(r, "delete_room") :
        ~req[r].calls[i].ok

DispatchAccepted(r) ==
    \E i \in CallsOf(r, "create_dispatch") : req[r].calls[i].ok

\* C13: a failure of the room listing call or of the room deletion call
\* never fails provisioning: the dispatch submission is still issued, for
\* the same room, and the outcome of create_livekit_agent_dispatch is
\* decided by the dispatch submission alone.
C13_CleanupFailureNotFatal ==
    \A r \in Requests :
        CleanupFailed(r) =>
            /\ req[r].pc # "create_dispatch" =>
                  /\ Cardinality(CallsOf(r, "create_dispatch")) = 1
                  /\ \A i \in CallsOf(r, "create_dispatch") :
                        /\ req[r].calls[i].room = req[r].room_name
                        /\ \A j \in CallsOf(r, "list_rooms") \cup CallsOf(r, "delete_room") :
                              j < i /\ req[r].calls[j].room = req[r].calls[i].room
            /\ req[r].pc = "aclose_failed" => DispatchRejected(r)
            /\ req[r].pc = "done" =>
                  /\ req[r].outcome.kind = "result" <=> DispatchAccepted(r)
                  /\ req[r].outcome.kind = "raised" <=> DispatchRejected(r)
                  /\ req[r].resp.status = 200 <=> DispatchAccepted(r)

\* C13 witness: the deletion of a listed stale room failed and the run still
\* returned a DispatchResult.
C13_Witness ==
    \E r \in Requests :
        /\ \E i \in CallsOf(r, "delete_room") : ~req[r].calls[i].ok
        /\ req[r].pc = "done"
        /\ req[r].outcome.kind = "result"
        /\ req[r].outcome.room = req[r].room_name

\* A join token the provider accepts at time `at` for room room_name.
ValidJoinToken(t, room_name, at) ==
    /\ t.kind = "media"
    /\ t.key = getenv(env, "LIVEKIT_API_SECRET")
    /\ t.payload.iss = getenv(env, "LIVEKIT_API_KEY")
    /\ t.payload.nbf <= at /\ at < t.payload.exp
    /\ t.payload.video.room = room_name
    /\ t.payload.video.room_join

\* C14: after a successful dispatch submission the presence check is
\* advisory: whether list_participants shows an agent, shows no agent, or
\* itself fails, create_livekit_agent_dispatch still returns a DispatchResult
\* with a valid join token for the room.
C14_PresenceCheckAdvisory ==
    \A r \in Requests :
        (DispatchAccepted(r) /\ CallsOf(r, "list_participants") # {}) =>
            /\ req[r].pc \in {"aclose", "done"}
            /\ req[r].pc = "done" =>
                  /\ req[r].outcome.kind = "result"
                  /\ req[r].outcome.room = req[r].room_name
                  /\ ValidJoinToken(req[r].outcome.access_token, req[r].room_name, now)
                  /\ req[r].resp.status = 200

\* C14 witness: the presence check saw no agent in the room and the
\* DispatchResult was returned all the same.
C14_Witness ==
    \E r \in Requests :
        /\ \E i \in CallsOf(r, "list_participants") : req[r].calls[i].error = "no agent"
        /\ req[r].pc = "done"
        /\ req[r].outcome.kind = "result"
        /\ ValidJoinToken(req[r].outcome.access_token, req[r].room_name, now)

\* C15: if any required configuration value (provider URL, API key, API
\* secret, DB host, DB user, DB name) is absent when an authenticated
\* create_session request arrives, the request fails with a configuration
\* error before any session record is created and before any provider call.
C15_MissingConfigFailsFast ==
    \A r \in Requests :
        (/\ req[r].pc # "idle"
         /\ WellSignedUnexpired(req[r].bearer, req[r].started_at)
         /\ \E v \in RequiredSet : getenv(env, v) = Unset) =>
            /\ req[r].pc = "done"
            /\ req[r].resp.status = 500
            /\ Carries(req[r].resp.detail, "Configuration error: ")
            /\ \A v \in RequiredSet :
                  getenv(env, v) = Unset <=> Carries(req[r].resp.detail, v)
            /\ req[r].calls = <<>>
            /\ req[r].session_id = Unset
            /\ sessions = <<>>
            /\ dispatches = {}

\* C15 witness: with DB_HOST unset, an authenticated request was answered
\* with the configuration error naming it.
C15_Witness ==
    \E r \in Requests :
        /\ getenv(env, "DB_HOST") = Unset
        /\ req[r].pc = "done"
        /\ req[r].payload # None
        /\ req[r].resp.status = 500
        /\ Carries(req[r].resp.detail, "DB_HOST")

\* What a run does beyond the session record: provider calls, waits, mint.
BeyondRecord == ProviderOps \cup {"sleep(2)", "sleep(8)", "aclose", "mint_token"}

RecordFailed(r) ==
    \E i \in CallsOf(r, "db.create_session") : ~req[r].calls[i].ok

\* C16: in every create_session run the session record is created before
\* any provider call, and if creating the record fails the run
\* short-circuits: no room listing, room deletion, dispatch submission or
\* participant check is invoked, no join token is minted, and the caller
\* gets a failure.
C16_RecordFirstElseShortCircuit ==
    \A r \in Requests :
        /\ Ops(r) \cap BeyondRecord # {} =>
              /\ req[r].calls[1].op = "db.create_session"
              /\ req[r].calls[1].ok
              /\ CallsOf(r, "db.create_session") = {1}
              /\ \E i \in DOMAIN sessions :
                    /\ sessions[i].session_id = req[r].session_id
                    /\ sessions[i].room_name = req[r].room_name
        /\ RecordFailed(r) =>
              /\ req[r].pc = "done"
              /\ Ops(r) \cap BeyondRecord = {}
              /\ req[r].minted = None
              /\ req[r].outcome = NoCall
              /\ req[r].session_id = Unset
              /\ req[r].resp.status = 500
              /\ ~req[r].resp.success

\* C16 witness: the insert failed and the request was answered with a 500
\* after that single call.
C16_Witness ==
    \E r \in Requests :
        /\ RecordFailed(r)
        /\ req[r].pc = "done"
        /\ Len(req[r].calls) = 1
        /\ req[r].resp.status = 500

\* C17: when create_session fails because the dispatch submission failed,
\* the message returned to the client is generic: the provider's error
\* detail is not in the client-visible response body.
C17_DispatchFailureMessageGeneric ==
    \A r \in Requests :
        (req[r].pc = "done" /\ DispatchRejected(r)) =>
            /\ req[r].resp.status = 500
            /\ Carries(req[r].resp.detail, "Failed to create session: ")
            /\ \A error \in ProviderErrors : ~Carries(req[r].resp.detail, error)

\* C18: no application token is issued or verified unless the signing
\* secret is present and at least 32 characters long: with the secret absent
\* or shorter the service fails at startup and serves no login and no
\* create_session request.
C18_WeakSecretServesNothing ==
    (SECRET_KEY = Unset \/ Len(SECRET_KEY) < 32) =>
        /\ lastLogin = NoCall
        /\ lastVerify = NoCall
        /\ \A r \in Requests : req[r].pc = "idle"

\* C19: in every configuration under which the service issues tokens, the
\* key that signs application tokens differs from the key that signs
\* media-join tokens, so no media-join token minted by the service is
\* accepted by verify_token as an application token on create_session.
C19_JoinTokenNeverAuthenticates ==
    /\ \A r \in Requests :
          req[r].minted # None => req[r].minted.key # SECRET_KEY
    /\ \A r \in Requests :
          (req[r].pc # "idle" /\ req[r].bearer.kind = "media") =>
              /\ verify_token(req[r].bearer, req[r].started_at).value = None
              /\ req[r].pc = "done"
              /\ req[r].resp.status = 401

\* Request r has drawn its room name; it is between its first and last step.
Named(r) == req[r].room_name # Unset

InFlight(r) == req[r].pc \notin {"idle", "done"}

\* The room request q dispatched its agent into is still there, with q's
\* dispatch.
DispatchedRoomIntact(q) ==
    /\ req[q].room_name \in rooms
    /\ \E d \in dispatches :
          /\ d.room = req[q].room_name
          /\ d.metadata.session_id = req[q].session_id

\* C20 as stated: for any two create_session calls running concurrently the
\* two generated room names are distinct and the flows do not interfere: the
\* stale-room cleanup of one never deletes a room the other in-flight flow
\* has dispatched an agent into, and each flow's token names only its own
\* room.
C20_ConcurrentFlowsNeverCollide ==
    \A r \in DOMAIN req : \A q \in DOMAIN req \ {r} :
        /\ (InFlight(r) /\ InFlight(q) /\ Named(r) /\ Named(q)) =>
              req[r].room_name # req[q].room_name
        /\ (InFlight(q) /\ DispatchAccepted(q)) => DispatchedRoomIntact(q)
        /\ req[r].minted # None =>
              /\ req[r].minted.grants.room = req[r].room_name
              /\ Named(q) => req[r].minted.grants.room # req[q].room_name

\* C20 amended: two concurrent create_session calls whose random draws
\* differ get distinct room names, and two calls with distinct room names
\* do not interfere: the cleanup of one never deletes the room the other
\* in-flight flow has dispatched into, and each flow's token names its own
\* room and not the other's.
C20_DistinctNamesIndependentFlows ==
    \A r \in DOMAIN req : \A q \in DOMAIN req \ {r} :
        /\ (Named(r) /\ Named(q) /\ req[r].unique_id # req[q].unique_id) =>
              req[r].room_name # req[q].room_name
        /\ (InFlight(q) /\ DispatchAccepted(q)
               /\ req[r].room_name # req[q].room_name) => DispatchedRoomIntact(q)
        /\ req[r].minted # None =>
              /\ req[r].minted.grants.room = req[r].room_name
              /\ (Named(q) /\ req[r].unique_id # req[q].unique_id) =>
                    req[r].minted.grants.room # req[q].room_name

\* C20 witness: while one flow waits on its dispatched agent, the other has
\* deleted the stale room of its own, different name.
C20_Witness ==
    \E r \in DOMAIN req : \E q \in DOMAIN req \ {r} :
        /\ InFlight(r) /\ InFlight(q)
        /\ req[r].room_name # req[q].room_name
        /\ DeleteSucceeded(r)
        /\ DispatchAccepted(q)
        /\ DispatchedRoomIntact(q)

\* ================================================================ C21 .. C30
\* Positions of a flow inside a provider round-trip or inside a wait.
ProviderOrWait ==
    {"list_rooms", "delete_room", "sleep_settle", "create_dispatch",
     "sleep_ready", "list_participants", "aclose", "aclose_failed"}

\* C21: a create_session flow never holds a pooled connection while it is in
\* a provider round-trip, in the 2-second settle wait or in the 8-second
\* readiness wait: the connection taken for the session record is back in the
\* pool before the first provider call.
C21_NoConnectionAcrossProviderWaits ==
    /\ \A r \in DOMAIN req : req[r].pc \in ProviderOrWait => req[r].conns = 0
    /\ (\E r \in DOMAIN req : req[r].pc \in ProviderOrWait) => pool = 0

\* A flow that wrote its session record is in the readiness wait, its
\* connection returned.
C21_Witness ==
    \E r \in DOMAIN req :
        /\ req[r].pc = "sleep_ready"
        /\ req[r].session_id # Unset
        /\ req[r].calls[1].op = "db.create_session" /\ req[r].calls[1].ok
        /\ pool = 0

\* The next step of one request, whatever its position.
FlowStep(r) ==
    \/ StartSession(r) \/ ListRooms(r) \/ DeleteRoom(r) \/ SettleWaitOver(r)
    \/ CreateDispatch(r) \/ ReadyWaitOver(r) \/ ListParticipants(r)
    \/ CloseAndReply(r) \/ CloseAndFail(r)

Waiting(r) == req[r].pc \in {"sleep_settle", "sleep_ready"}

\* C22: while one create_session flow is suspended in its settle wait or its
\* readiness wait, every other flow that has not finished can take its next
\* step, so it can run to completion.
C22_WaitsDoNotBlockOthers ==
    \A r \in DOMAIN req : \A q \in DOMAIN req :
        (r # q /\ Waiting(r) /\ req[q].pc # "done") => ENABLED FlowStep(q)

\* One flow started while the other was in its readiness wait and has
\* replied with a session before the first was resumed.
C22_Witness ==
    \E r \in DOMAIN req : \E q \in DOMAIN req :
        /\ r # q
        /\ req[r].pc = "sleep_ready"
        /\ req[q].pc = "done" /\ req[q].resp.status = 200
        /\ req[q].started_at >= req[r].wake - ReadySeconds
        /\ req[q].started_at < req[r].wake

\* C25: the users table never holds two rows for one phone number, however
\* the number was written in the calls that created them: a call whose phone
\* has the digits of an existing row returns that row's user_id and inserts
\* nothing, and two concurrent calls for a new phone insert one row.
C25_OneRowPerPhone ==
    \A i \in DOMAIN users : \A j \in DOMAIN users :
        normalize_phone(users[i].phone) = normalize_phone(users[j].phone) => i = j

\* The write step of an upsert_user_contact call whose lookup found a user.
UpsertOfFoundUser(c) ==
    /\ dbcall[c].pc = "found"
    /\ dbcall[c].op = "upsert_user_contact"
    /\ dbcall'[c].pc = "idle"

\* C26: upsert_user_contact on a phone that matches an existing user changes
\* nothing but that user's last_contact_date: phone, email and name of the
\* row, and every other row, stay as they were whatever name and email are
\* passed.
C26_UpsertMatchTouchesOnlyLastContact ==
    [][ \A c \in DOMAIN dbcall :
          UpsertOfFoundUser(c) =>
            /\ DOMAIN users' = DOMAIN users
            /\ \A i \in DOMAIN users :
                 IF users[i].user_id = dbcall[c].result
                 THEN /\ users'[i] = [users[i] EXCEPT !.last_contact_date =
                                                      users'[i].last_contact_date]
                      /\ lastDb'.fail = "none" => users'[i].last_contact_date = now
                 ELSE users'[i] = users[i] ]_vars

\* An upsert_user_contact call was given another name and email for a patient
\* on file; the row has a new last_contact_date and its old name and email.
C26_Witness ==
    /\ lastDb.kind = "db" /\ lastDb.op = "upsert_user_contact"
    /\ lastDb.fail = "none"
    /\ lastDb.value \in DOMAIN users
    /\ Len(users) > 1
    /\ LET row == users[lastDb.value]
       IN  /\ lastDb.args[1] # row.name
           /\ lastDb.args[2] # row.email
           /\ row.last_contact_date > row.first_contact_date

BestEffortOps == {"update_session_analytics", "log_booking_to_history", "end_session"}

\* C23: a best-effort write never lets an error reach its caller: whatever
\* fails, the pool's get_connection included, update_session_analytics,
\* log_booking_to_history and end_session log the failure and return.
C23_BestEffortWritesNeverRaise ==
    (lastDb.kind = "db" /\ lastDb.op \in BestEffortOps /\ lastDb.fail # "none")
        => (lastDb.use.raised = Unset /\ lastDb.use.logged)

TransactionOps == {"create_booking", "reschedule_booking"}

\* C24: when a statement or the commit of create_booking or of
\* reschedule_booking fails, no write of the call is visible afterwards, the
\* transaction is rolled back and the error is raised to the caller.
C24_FailedTransactionRolledBackAndRaised ==
    [][ (lastDb'.kind = "db" /\ lastDb'.op \in TransactionOps
           /\ lastDb'.fail \in {"execute", "commit"})
          => /\ bookings' = bookings
             /\ users' = users
             /\ booking_history' = booking_history
             /\ lastDb'.use.rolled_back
             /\ lastDb'.use.raised # Unset ]_vars

\* C29: every persistence call gives back the connection it took, once: when
\* login, create_session, end_session, log_booking_to_history or
\* update_session_analytics has returned or raised, as many connections are
\* checked out as before the call, and conn.close() ran once for the
\* connection acquired and never twice.
C29_ConnectionReturnedExactlyOnce ==
    lastDb.kind = "db"
        => (lastDb.left_out = 0 /\ lastDb.use.closes = lastDb.use.acquired)

\* The identifier a dispatch response carries, Unset when it carries none.
ProviderId(dispatch) ==
    IF hasattr(dispatch, "agent_job") /\ dispatch.agent_job # ""
    THEN dispatch.agent_job
    ELSE IF hasattr(dispatch, "agent_dispatch_id") /\ dispatch.agent_dispatch_id # ""
    THEN dispatch.agent_dispatch_id
    ELSE IF hasattr(dispatch, "id") /\ dispatch.id # ""
    THEN dispatch.id
    ELSE Unset

\* The random identifier request r generated before the provider call.
LocalDispatchId(r) == "uuid-" \o ToString(r)

\* C27: the dispatch_id of a returned DispatchResult, and of the response
\* built from it, is the identifier the dispatch response carries when it
\* carries one, the locally generated random identifier otherwise, and is
\* never empty.
C27_DispatchIdProviderElseLocal ==
    \A r \in DOMAIN req :
        req[r].outcome.kind = "result" =>
            /\ req[r].outcome.dispatch_id # ""
            /\ req[r].outcome.dispatch_id =
                   IF ProviderId(dispatch_reply) # Unset
                   THEN ProviderId(dispatch_reply)
                   ELSE LocalDispatchId(r)
            /\ req[r].resp.data.dispatch_id = req[r].outcome.dispatch_id

\* The state of request r's create_livekit_agent_dispatch invocation.
Phase(r) ==
    LET me == req[r]
    IN  IF me.pc \in {"list_rooms", "delete_room", "sleep_settle"} THEN "Requested"
        ELSE IF me.pc = "create_dispatch" THEN "Submitted"
        ELSE IF me.pc \in {"sleep_ready", "list_participants"} THEN "AwaitingReadiness"
        ELSE IF me.pc = "aclose" THEN "Verified"
        ELSE IF me.pc = "aclose_failed" THEN "Failed"
        ELSE IF me.pc = "done" /\ me.outcome.kind = "result" THEN "Verified"
        ELSE IF me.pc = "done" /\ me.outcome.kind = "raised" THEN "Failed"
        ELSE "NotInvoked"

PhaseEdges ==
    { <<"NotInvoked", "Requested">>, <<"Requested", "Submitted">>,
      <<"Submitted", "AwaitingReadiness">>, <<"AwaitingReadiness", "Verified">>,
      <<"Submitted", "Failed">> }

Invoked(r) == Phase(r) # "NotInvoked"

\* Exactly one of: a DispatchResult was returned (and sent with status 200),
\* an error was raised (and sent with status 500).
OneOutcome(r) ==
    LET returned == req[r].outcome.kind = "result" /\ req[r].resp.status = 200
        raised == req[r].outcome.kind = "raised" /\ req[r].resp.status = 500
    IN  (returned \/ raised) /\ ~(returned /\ raised)

\* C28: an invocation of create_livekit_agent_dispatch moves only along
\* Requested -> Submitted -> AwaitingReadiness -> Verified or Requested ->
\* Submitted -> Failed, and, every provider call returning or failing, it
\* ends, with exactly one outcome: a returned DispatchResult or a raised
\* error.
C28_DispatchPathsAndTermination ==
    /\ [][ \A r \in DOMAIN req :
             Phase(r)' = Phase(r) \/ <<Phase(r), Phase(r)'>> \in PhaseEdges ]_vars
    /\ [](\A r \in DOMAIN req : (Invoked(r) /\ req[r].pc = "done") => OneOutcome(r))
    /\ \A r \in Solo : Invoked(r) ~> (req[r].pc = "done" /\ OneOutcome(r))

\* One invocation ended Verified after its readiness wait, its session
\* returned.
C28_Witness ==
    \E r \in DOMAIN req :
        /\ req[r].pc = "done" /\ Phase(r) = "Verified"
        /\ CallsOf(r, "create_dispatch") # {}
        /\ CallsOf(r, "sleep(8)") # {}
        /\ CallsOf(r, "list_participants") # {}
        /\ now >= req[r].started_at + ReadySeconds

\* The session records request r's session_id names.
RecordsOf(r) == {i \in DOMAIN sessions : sessions[i].session_id = req[r].session_id}

\* C30: in a successful create_session one room name is in the session
\* record, in the stale-room check, in the dispatch request, in the join
\* token's grant and in the response, and the session_id of the dispatch
\* metadata and of the response is the id of the session record this request
\* created.
C30_OneRoomNameOneSessionId ==
    \A r \in DOMAIN req :
        (req[r].pc = "done" /\ req[r].resp.status = 200) =>
            LET me == req[r]
                provider == CallsOf(r, "list_rooms") \cup CallsOf(r, "delete_room")
                               \cup CallsOf(r, "create_dispatch")
                               \cup CallsOf(r, "list_participants")
            IN  /\ Cardinality(RecordsOf(r)) = 1
                /\ \A i \in RecordsOf(r) :
                       /\ sessions[i].room_name = me.room_name
                       /\ sessions[i].start_time = me.started_at
                /\ CallsOf(r, "list_rooms") # {} /\ CallsOf(r, "create_dispatch") # {}
                /\ \A i \in provider : me.calls[i].room = me.room_name
                /\ me.minted.payload.video.room = me.room_name
                /\ me.outcome.room = me.room_name
                /\ me.resp.data.access_token = me.minted
                /\ me.resp.data.room_name = me.room_name
                /\ me.metadata.session_id = me.session_id
                /\ me.outcome.metadata = me.metadata
                /\ me.resp.data.session_id = me.session_id

\* A create_session that found and deleted a stale room of its own name has
\* replied with that room and with the id of its session record.
C30_Witness ==
    \E r \in DOMAIN req :
        /\ req[r].pc = "done" /\ req[r].resp.status = 200
        /\ RoomListed(r) /\ DeleteSucceeded(r)
        /\ req[r].resp.data.room_name = generate_room_name("toothfairy", 1)
        /\ req[r].resp.data.session_id = sessions[1].session_id

====
